---- MODULE Spec2Model ----
(***************************************************************************)
(* Model of the cff3000 crate (src/src/lib.rs): the button presses of     *)
(* lock(), unlock() and check(), and CFF3000::state(): the capture loop    *)
(* that logs the LED edge events of the red and green event handles, the   *)
(* 50 ms merge pass, the carry-forward pass and the classification of the  *)
(* resulting sequence.                                                     *)
(*                                                                         *)
(* Rust indexes vectors from 0; At(s, i) reads s[i] with the source's      *)
(* index, so every index below is the source's.                            *)
(***************************************************************************)
EXTENDS Integers, Sequences, FiniteSets, TLC

(* ------------------------------------------------------------------ *)
(* Bounds of the model                                                 *)
(* ------------------------------------------------------------------ *)

\* LED edges that occur during one capture
MaxEvents == 4

\* granularity of the times at which LED edges occur, in ns (25 ms)
TickNs == 25000000

\* longest coalesced sequence handed to the classification on its own
MaxLen == 6

\* longest resolved sequence handed to the coalescing again
MaxResolved == 4

\* calls made on one CFF3000 object
MaxCalls == 2

(* ------------------------------------------------------------------ *)
(* Program constants                                                   *)
(* ------------------------------------------------------------------ *)

\* "combine events within 50ms": eventlog[i].timestamp - 50
Window == 50

\* Event.mask of a red event and of a green event
RED == 1
GREEN == 2

VARIABLES
    pc,               \* position: "idle" between calls, "buttons" in the line writes of a
                      \* call, and in state() "capture", "combine", "check", "done"
    now,              \* kernel clock at the latest LED edge, in ns
    red,              \* events pending on self.red, oldest first
    green,            \* events pending on self.green, oldest first
    eventlog,         \* eventlog: Vec<Event>
    merged_eventlog,  \* simple_eventlog as the merge pass left it
    simple_eventlog,  \* simple_eventlog: Vec<Event>
    origin,           \* for each eventlog index, the simple_eventlog index (pos) it went to
    overflow_checks,  \* whether the build traps integer overflow (debug) or wraps (release)
    result,           \* what state() returned, "none" before it returns
    walk_i,           \* value of i when the check loop of state() returned early, else -1
    lock,             \* level of the output line self.lock
    unlock,           \* level of the output line self.unlock
    op,               \* the method called last: "lock", "unlock", "check", "state", or "none"
    step,             \* line writes of that call that have succeeded
    ret,              \* what its line writes returned: "Ok", "Err", "none" while they run
    writes,           \* the line writes of that call that succeeded, in order
    calls,            \* calls made so far
    queued_before     \* events pending on self.red and self.green when state() was called

\* the state of the button lines and of the call that drives them
buttons == <<lock, unlock, op, step, ret, writes, calls, queued_before>>

vars == <<pc, now, red, green, eventlog, merged_eventlog, simple_eventlog, origin, overflow_checks, result, walk_i, buttons>>

(* ------------------------------------------------------------------ *)
(* u8 arithmetic                                                       *)
(* ------------------------------------------------------------------ *)

\* the values of a u8
U8 == 0..255

RECURSIVE AndBits(_, _)
AndBits(a, b) ==
    IF a = 0 \/ b = 0 THEN 0
    ELSE (a % 2) * (b % 2) + 2 * AndBits(a \div 2, b \div 2)

RECURSIVE OrBits(_, _)
OrBits(a, b) ==
    IF a = 0 THEN b
    ELSE IF b = 0 THEN a
    ELSE (IF a % 2 = 1 \/ b % 2 = 1 THEN 1 ELSE 0) + 2 * OrBits(a \div 2, b \div 2)

\* a & b and a | b on u8, tabulated
AndTable == [a \in U8 |-> [b \in U8 |-> AndBits(a, b)]]
OrTable == [a \in U8 |-> [b \in U8 |-> OrBits(a, b)]]

BitAnd(a, b) == AndTable[a][b]
BitOr(a, b) == OrTable[a][b]

\* !x on a u8
BitNot(a) == 255 - a

\* x << n on a u8
Shl(a, n) == (a * (2 ^ n)) % 256

\* s[i] with the index of the source (from 0)
At(s, i) == s[i + 1]

\* whether s[i] is inside the vector (an access outside panics)
InBounds(s, i) == i >= 0 /\ i < Len(s)

(* ------------------------------------------------------------------ *)
(* The results of state()                                              *)
(* ------------------------------------------------------------------ *)

\* Ok(CFF3000State::...)
DeviceStates == {"Locked", "Unlocked", "Manual", "OutOfRange"}

\* "invalid manual error LED substate", "invalid out of range error LED substate"
InvalidSubstate == {"InvalidSubstateManual", "InvalidSubstateOutOfRange"}

\* "did not receive enough LED change events", "first LED changes is invalid",
\* "last LED change is invalid", "invalid LED state", and the two above
Errors == {"InsufficientEvents", "InvalidStart", "InvalidEnd", "InvalidState"} \cup InvalidSubstate

(* ------------------------------------------------------------------ *)
(* Buttons: lock(), unlock(), check() and the check() of state()       *)
(* ------------------------------------------------------------------ *)

\* the methods that only press buttons
Methods == {"lock", "unlock", "check"}

\* the line writes of a method in program order, <<line, level>>; state()
\* starts with try!(self.check()).  The 500 ms sleep between the presses and
\* the releases changes no state.
Program(o) ==
    CASE o = "lock"   -> << <<"lock", 1>>, <<"lock", 0>> >>
      [] o = "unlock" -> << <<"unlock", 1>>, <<"unlock", 0>> >>
      [] OTHER        -> << <<"lock", 1>>, <<"unlock", 1>>, <<"unlock", 0>>, <<"lock", 0>> >>

\* state() after its try!(self.check()) returned Ok, called on a new object
CheckReturnedOk ==
    /\ lock = 0 /\ unlock = 0
    /\ op = "state" /\ step = Len(Program("state")) /\ ret = "Ok"
    /\ writes = Program("state")
    /\ calls = 1
    /\ queued_before = <<0, 0>>

\* a CFF3000 object as new() returns it: both lines requested with level 0,
\* both event handles requested and empty, no call made
NoCallYet ==
    /\ lock = 0 /\ unlock = 0
    /\ op = "none" /\ step = 0 /\ ret = "none"
    /\ writes = <<>>
    /\ calls = 0
    /\ queued_before = <<0, 0>>

\* The client calls the method o.  The event handles are those of new():
\* state() starts on whatever they hold.
Call(o) ==
    /\ pc = "idle"
    /\ calls < MaxCalls
    /\ op' = o /\ step' = 0 /\ ret' = "none" /\ writes' = <<>>
    /\ calls' = calls + 1
    /\ queued_before' = IF o = "state" THEN <<Len(red), Len(green)>> ELSE queued_before
    /\ pc' = "buttons"
    /\ UNCHANGED <<now, red, green, eventlog, merged_eventlog, simple_eventlog, origin, overflow_checks, result, walk_i, lock, unlock>>

\* The next line write of the call succeeds; after the last one the method
\* returns Ok(()), and state() goes on to its capture loop.
SetOk ==
    /\ pc = "buttons"
    /\ \E w \in {At(Program(op), step)} :
          /\ lock' = IF w[1] = "lock" THEN w[2] ELSE lock
          /\ unlock' = IF w[1] = "unlock" THEN w[2] ELSE unlock
          /\ writes' = Append(writes, w)
    /\ step' = step + 1
    /\ IF step + 1 < Len(Program(op))
       THEN pc' = "buttons" /\ ret' = "none"
       ELSE ret' = "Ok" /\ pc' = IF op = "state" THEN "capture" ELSE "idle"
    /\ UNCHANGED <<now, red, green, eventlog, merged_eventlog, simple_eventlog, origin, overflow_checks, result, walk_i, op, calls, queued_before>>

\* The next line write of the call fails: try! returns the error at once and
\* the writes after it do not run.
SetErr ==
    /\ pc = "buttons"
    /\ ret' = "Err"
    /\ IF op = "state"
       THEN pc' = "done" /\ result' = "IoError"
       ELSE pc' = "idle" /\ result' = result
    /\ UNCHANGED <<now, red, green, eventlog, merged_eventlog, simple_eventlog, origin, overflow_checks, walk_i, lock, unlock, op, step, writes, calls, queued_before>>

(* ------------------------------------------------------------------ *)
(* Capture loop                                                        *)
(* ------------------------------------------------------------------ *)

\* event.timestamp/1000/1000: ns to ms
ToMs(ns) == (ns \div 1000) \div 1000

\* Event pushed for a red edge
RedEvent(ev) ==
    [mask |-> RED, timestamp |-> ToMs(ev.timestamp),
     state |-> Shl(IF ev.rising THEN 1 ELSE 0, 0)]

\* Event pushed for a green edge
GreenEvent(ev) ==
    [mask |-> GREEN, timestamp |-> ToMs(ev.timestamp),
     state |-> Shl(IF ev.rising THEN 1 ELSE 0, 1)]

\* number of LED edges seen so far
Edges == Len(eventlog) + Len(red) + Len(green)

\* the time between one LED edge and the next: inside the window, or the window
Gaps == {TickNs, 2 * TickNs}

\* the kernel clock at the first LED edge: below the window, or past it
StartTimes == {0, 2 * TickNs}

\* the kernel clock at the next LED edge
EdgeTimes == IF Edges = 0 THEN StartTimes ELSE {now + d : d \in Gaps}

\* An edge on the red LED line at time t: the kernel queues an event stamped
\* with its clock on the handle new() requested, whether state() runs or not.
RedEdge(rising, t) ==
    /\ pc \in {"idle", "capture"}
    /\ Edges < MaxEvents
    /\ now' = t
    /\ red' = Append(red, [timestamp |-> t, rising |-> rising])
    /\ UNCHANGED <<pc, green, eventlog, merged_eventlog, simple_eventlog, origin, overflow_checks, result, walk_i, buttons>>

\* An edge on the green LED line at time t.
GreenEdge(rising, t) ==
    /\ pc \in {"idle", "capture"}
    /\ Edges < MaxEvents
    /\ now' = t
    /\ green' = Append(green, [timestamp |-> t, rising |-> rising])
    /\ UNCHANGED <<pc, red, eventlog, merged_eventlog, simple_eventlog, origin, overflow_checks, result, walk_i, buttons>>

\* One iteration of the capture loop in which wait_for_event reports events:
\* one event is read from red if it has any, then one from green if it has any.
Wake ==
    /\ pc = "capture"
    /\ red # <<>> \/ green # <<>>
    /\ LET afterRed == IF red # <<>> THEN Append(eventlog, RedEvent(Head(red)))
                       ELSE eventlog
       IN  eventlog' = IF green # <<>> THEN Append(afterRed, GreenEvent(Head(green)))
                       ELSE afterRed
    /\ red' = IF red # <<>> THEN Tail(red) ELSE red
    /\ green' = IF green # <<>> THEN Tail(green) ELSE green
    /\ UNCHANGED <<pc, now, merged_eventlog, simple_eventlog, origin, overflow_checks, result, walk_i, buttons>>

\* start.elapsed().as_secs() >= 8: the loop ends.  The 8 s are measured on
\* Instant, not on the clock that stamps the events, and nothing in the loop
\* depends on how long it ran, so the deadline may fall after any iteration.
Deadline ==
    /\ pc = "capture"
    /\ pc' = "combine"
    /\ UNCHANGED <<now, red, green, eventlog, merged_eventlog, simple_eventlog, origin, overflow_checks, result, walk_i, buttons>>

(* ------------------------------------------------------------------ *)
(* Panics                                                              *)
(* ------------------------------------------------------------------ *)

\* "index out of bounds" and "attempt to subtract with overflow"
Panics == {"PanicIndexOutOfBounds", "PanicSubtractOverflow"}

(* ------------------------------------------------------------------ *)
(* Merge pass: "combine events within 50ms"                            *)
(* ------------------------------------------------------------------ *)

\* whether the u64 subtraction a - b overflows
SubOverflows(a, b) == a < b

\* WindowTest with >= in place of >: a gap of exactly 50 ms is merged
WindowTestInclusive(prev, cur) ==
    IF SubOverflows(cur, Window) THEN FALSE ELSE prev >= cur - Window

\* eventlog[i-1].timestamp > eventlog[i].timestamp - 50 on u64, in a build
\* that wraps.  When cur < 50 the difference wraps to 2^64 - (50 - cur); a
\* timestamp is a u64 of ns divided by 10^6, so it is below that value and
\* the test is false.
WindowTest(prev, cur) ==
    IF SubOverflows(cur, Window) THEN FALSE ELSE prev > cur - Window

\* simple_eventlog[pos] after eventlog[i] has been merged into it
MergeInto(entry, ev) ==
    LET mask == BitOr(entry.mask, ev.mask)
        s1   == BitOr(entry.state, BitAnd(ev.state, ev.mask))
        s2   == BitAnd(s1, BitOr(ev.state, BitNot(ev.mask)))
    IN  [mask |-> mask, timestamp |-> entry.timestamp, state |-> s2]

\* the loop over i in 1..eventlog.len(), from i on
RECURSIVE CombineLoop(_, _, _, _, _)
CombineLoop(log, i, simple, org, chk) ==
    IF i >= Len(log) THEN [panic |-> "none", simple |-> simple, origin |-> org]
    ELSE
        LET cur  == At(log, i)
            prev == At(log, i - 1)
            pos  == Len(simple) - 1
        IN  IF chk /\ SubOverflows(cur.timestamp, Window)
            THEN [panic |-> "PanicSubtractOverflow", simple |-> simple, origin |-> org]
            ELSE IF WindowTest(prev.timestamp, cur.timestamp)
            THEN CombineLoop(log, i + 1,
                             [simple EXCEPT ![pos + 1] = MergeInto(simple[pos + 1], cur)],
                             Append(org, pos), chk)
            ELSE CombineLoop(log, i + 1, Append(simple, cur), Append(org, pos + 1), chk)

\* the whole merge pass; eventlog[0] panics on an empty log
CombineEvents(log, chk) ==
    IF ~InBounds(log, 0)
    THEN [panic |-> "PanicIndexOutOfBounds", simple |-> <<>>, origin |-> <<>>]
    ELSE CombineLoop(log, 1, <<At(log, 0)>>, <<0>>, chk)

(* ------------------------------------------------------------------ *)
(* Carry-forward pass: "fill up event data for unchanged leds with     *)
(* previous information and use relative timestamps"                   *)
(* ------------------------------------------------------------------ *)

\* e.timestamp -= offset on u64 in a build that wraps: a negative number n
\* stands for the wrapped value 2^64 + n
WrappingSub(a, b) == a - b

\* the running state after the entry e
KnownState(state, e) ==
    BitOr(BitAnd(state, BitNot(e.mask)), BitAnd(e.state, e.mask))

\* FillEntry without the carry-forward: the entry keeps the bits of its own run
FillEntryNoCarry(e, known, offset) ==
    [mask |-> 3, timestamp |-> WrappingSub(e.timestamp, offset), state |-> e.state]

\* the entry e as the loop body leaves it
FillEntry(e, known, offset) ==
    [mask      |-> 3,
     timestamp |-> WrappingSub(e.timestamp, offset),
     state     |-> IF e.mask # 3 THEN BitOr(BitAnd(e.state, e.mask), known) ELSE e.state]

\* the loop over the entries, from entry k on
RECURSIVE FillLoop(_, _, _, _, _)
FillLoop(simple, k, state, offset, chk) ==
    IF k >= Len(simple) THEN [panic |-> "none", simple |-> simple]
    ELSE
        LET e     == At(simple, k)
            known == KnownState(state, e)
        IN  IF chk /\ SubOverflows(e.timestamp, offset)
            THEN [panic |-> "PanicSubtractOverflow", simple |-> simple]
            ELSE FillLoop([simple EXCEPT ![k + 1] = FillEntry(e, known, offset)],
                          k + 1, known, offset, chk)

\* the whole pass; simple_eventlog[0] exists, the merge pass pushed it
FillUpEvents(simple, chk) == FillLoop(simple, 0, 0, At(simple, 0).timestamp, chk)

(* ------------------------------------------------------------------ *)
(* Classification: "check for obvious problems" and what follows       *)
(* ------------------------------------------------------------------ *)

\* what the check returns: the result, and i when the loop returned early
Return(r, i) == [result |-> r, i |-> i]

\* WalkEnd one past the end of the vector: the loop reads simple_eventlog[len]
WalkEndPastEnd(s) == Len(s) + 1

\* the end (exclusive) of the range 2..simple_eventlog.len()-1
WalkEnd(s) == Len(s) - 1

\* ManualViolation that only asks the entry to differ from its predecessor
ManualViolationUnequal(prev, cur) ==
    BitAnd(prev.state, 3) = BitAnd(cur.state, 3)

\* whether entry i breaks the Manual pattern
ManualViolation(prev, cur) ==
    BitAnd(prev.state, 3) # BitAnd(BitNot(cur.state), 3)

\* OutOfRangeViolation that forgets the both-on state
OutOfRangeViolationOffOnly(prev, cur) ==
    \/ cur.state = 0
    \/ BitAnd(prev.state, 3) = BitAnd(BitNot(prev.state), 3)

\* whether entry i breaks the OutOfRange pattern
OutOfRangeViolation(prev, cur) ==
    \/ cur.state = 0 \/ cur.state = 3
    \/ BitAnd(prev.state, 3) = BitAnd(BitNot(prev.state), 3)

\* the loop over i in 2..simple_eventlog.len()-1, from i on
RECURSIVE Walk(_, _, _)
Walk(s, mode, i) ==
    IF i >= WalkEnd(s) THEN Return(mode, -1)
    ELSE IF ~InBounds(s, i - 1) \/ ~InBounds(s, i) THEN Return("PanicIndexOutOfBounds", i)
    ELSE IF mode = "Manual"
    THEN IF ManualViolation(At(s, i - 1), At(s, i))
         THEN Return("InvalidSubstateManual", i)
         ELSE Walk(s, mode, i + 1)
    ELSE IF OutOfRangeViolation(At(s, i - 1), At(s, i))
         THEN Return("InvalidSubstateOutOfRange", i)
         ELSE Walk(s, mode, i + 1)

\* ClassifySteady with the two LEDs exchanged
ClassifySteadySwapped(s) ==
    IF At(s, 1).state = 1 THEN Return("Locked", -1)
    ELSE IF At(s, 1).state = 2 THEN Return("Unlocked", -1)
    ELSE Return("InvalidState", -1)

\* simple_eventlog.len() == 3
ClassifySteady(s) ==
    IF At(s, 1).state = 2 THEN Return("Locked", -1)
    ELSE IF At(s, 1).state = 1 THEN Return("Unlocked", -1)
    ELSE Return("InvalidState", -1)

\* ClassifyBlink with the two modes exchanged
ClassifyBlinkSwapped(s) ==
    IF ~InBounds(s, 1) THEN Return("PanicIndexOutOfBounds", -1)
    ELSE IF At(s, 1).state = 0 THEN Walk(s, "OutOfRange", 2)
    ELSE IF At(s, 1).state \in {1, 2} THEN Walk(s, "Manual", 2)
    ELSE Return("InvalidState", -1)

\* simple_eventlog.len() > 3
ClassifyBlink(s) ==
    IF ~InBounds(s, 1) THEN Return("PanicIndexOutOfBounds", -1)
    ELSE IF At(s, 1).state = 0 THEN Walk(s, "Manual", 2)
    ELSE IF At(s, 1).state \in {1, 2} THEN Walk(s, "OutOfRange", 2)
    ELSE Return("InvalidState", -1)

\* Classify with the last entry checked before the first
ClassifyEndFirst(s) ==
    IF Len(s) <= 2 THEN Return("InsufficientEvents", -1)
    ELSE IF At(s, Len(s) - 1).state # 0 THEN Return("InvalidEnd", -1)
    ELSE IF At(s, 0).state # 3 THEN Return("InvalidStart", -1)
    ELSE IF Len(s) = 3 THEN ClassifySteady(s)
    ELSE ClassifyBlink(s)

\* the checks and the classification of state() on the coalesced sequence s
Classify(s) ==
    IF Len(s) <= 2 THEN Return("InsufficientEvents", -1)
    ELSE IF At(s, 0).state # 3 THEN Return("InvalidStart", -1)
    ELSE IF At(s, Len(s) - 1).state # 0 THEN Return("InvalidEnd", -1)
    ELSE IF Len(s) = 3 THEN ClassifySteady(s)
    ELSE ClassifyBlink(s)

\* what the carry-forward pass and the classification make of the merged log m
Coalesced(m, chk) ==
    LET f == FillUpEvents(m.simple, chk)
    IN  IF f.panic # "none"
        THEN [simple |-> f.simple, result |-> f.panic, i |-> -1]
        ELSE LET c == Classify(f.simple)
             IN  [simple |-> f.simple, result |-> c.result, i |-> c.i]

\* The rest of state() once the capture loop has ended: the merge pass, the
\* carry-forward pass and the classification; a panic ends the call where it
\* happens.
Decode ==
    /\ pc = "combine"
    /\ \E m \in {CombineEvents(eventlog, overflow_checks)} :
          /\ merged_eventlog' = m.simple
          /\ origin' = m.origin
          /\ IF m.panic # "none"
             THEN simple_eventlog' = m.simple /\ result' = m.panic /\ walk_i' = walk_i
             ELSE \E d \in {Coalesced(m, overflow_checks)} :
                     simple_eventlog' = d.simple /\ result' = d.result /\ walk_i' = d.i
    /\ pc' = "done"
    /\ UNCHANGED <<now, red, green, eventlog, overflow_checks, buttons>>

\* The classification alone, on the coalesced sequence in simple_eventlog.
Check ==
    /\ pc = "check"
    /\ LET c == Classify(simple_eventlog)
       IN  result' = c.result /\ walk_i' = c.i
    /\ pc' = "done"
    /\ UNCHANGED <<now, red, green, eventlog, merged_eventlog, simple_eventlog, origin, overflow_checks, buttons>>

(* ------------------------------------------------------------------ *)
(* Specifications                                                      *)
(* ------------------------------------------------------------------ *)

\* state() after check() returned and before the capture loop starts
Init ==
    /\ pc = "capture"
    /\ now = 0
    /\ red = <<>>
    /\ green = <<>>
    /\ eventlog = <<>>
    /\ merged_eventlog = <<>>
    /\ simple_eventlog = <<>>
    /\ origin = <<>>
    /\ overflow_checks \in BOOLEAN
    /\ result = "none"
    /\ walk_i = -1
    /\ CheckReturnedOk

Next ==
    \/ \E rising \in BOOLEAN, t \in EdgeTimes : RedEdge(rising, t)
    \/ \E rising \in BOOLEAN, t \in EdgeTimes : GreenEdge(rising, t)
    \/ Wake
    \/ Deadline
    \/ Decode

\* one call of state(), from the capture loop on
Spec == Init /\ [][Next]_vars

\* a new object with the build chosen, nothing called and no LED edge yet
InitObject ==
    /\ pc = "idle"
    /\ now = 0
    /\ red = <<>>
    /\ green = <<>>
    /\ eventlog = <<>>
    /\ merged_eventlog = <<>>
    /\ simple_eventlog = <<>>
    /\ origin = <<>>
    /\ overflow_checks \in BOOLEAN
    /\ result = "none"
    /\ walk_i = -1
    /\ NoCallYet

NextButtons ==
    \/ \E o \in Methods : Call(o)
    \/ SetOk
    \/ SetErr

\* calls of lock(), unlock() and check() on one object
SpecButtons == InitObject /\ [][NextButtons]_vars

NextSessions ==
    \/ Call("state")
    \/ SetOk
    \/ SetErr
    \/ \E rising \in BOOLEAN, t \in EdgeTimes : RedEdge(rising, t)
    \/ \E rising \in BOOLEAN, t \in EdgeTimes : GreenEdge(rising, t)
    \/ Wake
    \/ Deadline
    \/ Decode

\* one call of state() on an object whose LEDs may have changed before the
\* call: in answer to an earlier lock(), unlock() or check(), or because the
\* device was operated
SpecSessions == InitObject /\ [][NextSessions]_vars

\* the coalesced sequences of n entries: mask 0b11, any 2-bit state, relative
\* timestamps one window apart
ResolvedLogs(n) ==
    { [k \in 1..n |-> [mask |-> 3, timestamp |-> (k - 1) * Window, state |-> st[k]]] :
        st \in [1..n -> 0..3] }

\* state() at the check, on any coalesced sequence of 1..MaxLen entries
InitClassify ==
    /\ pc = "check"
    /\ now = 0
    /\ red = <<>>
    /\ green = <<>>
    /\ eventlog = <<>>
    /\ merged_eventlog = <<>>
    /\ simple_eventlog \in UNION { ResolvedLogs(n) : n \in 1..MaxLen }
    /\ origin = <<>>
    /\ overflow_checks = FALSE
    /\ result = "none"
    /\ walk_i = -1
    /\ CheckReturnedOk

NextClassify == Check

\* the classification alone, over every coalesced sequence within the bound
SpecClassify == InitClassify /\ [][NextClassify]_vars

\* the gaps of a resolved sequence: the window, or more
ResolvedGaps == {Window, Window + ToMs(TickNs)}

\* the timestamp of entry k of a sequence that starts at 0 and has the gaps g
RECURSIVE TimeOfEntry(_, _)
TimeOfEntry(g, k) == IF k = 1 THEN 0 ELSE TimeOfEntry(g, k - 1) + g[k]

\* the resolved sequences of n entries: mask 0b11, any 2-bit state, first
\* timestamp 0, every gap the window or more
ResolvedInputs(n) ==
    { [k \in 1..n |-> [mask |-> 3, timestamp |-> TimeOfEntry(g, k), state |-> st[k]]] :
        g \in [2..n -> ResolvedGaps], st \in [1..n -> 0..3] }

\* the coalescing applied to a sequence it has already resolved
InitResolved ==
    /\ pc = "combine"
    /\ now = 0
    /\ red = <<>>
    /\ green = <<>>
    /\ eventlog \in UNION { ResolvedInputs(n) : n \in 1..MaxResolved }
    /\ merged_eventlog = <<>>
    /\ simple_eventlog = <<>>
    /\ origin = <<>>
    /\ overflow_checks \in BOOLEAN
    /\ result = "none"
    /\ walk_i = -1
    /\ CheckReturnedOk

NextResolved == Decode

\* the merge pass, the carry-forward pass and the normalisation over every
\* resolved sequence within the bound
SpecResolved == InitResolved /\ [][NextResolved]_vars

(* ------------------------------------------------------------------ *)
(* Vocabulary of the properties                                        *)
(* ------------------------------------------------------------------ *)

\* number of coalesced entries
NEntries == Len(simple_eventlog)

\* state of the coalesced entry i
StateAt(i) == At(simple_eventlog, i).state

\* at least 3 entries, first both-on, last both-off
Structural == NEntries >= 3 /\ StateAt(0) = 3 /\ StateAt(NEntries - 1) = 0

\* the 2-bit complement of a state
Complement(st) == 3 - st

\* entry i breaks the pattern of the mode that entry 1 selects
BreaksMode(i) ==
    IF StateAt(1) = 0 THEN StateAt(i) # Complement(StateAt(i - 1))
    ELSE StateAt(i) \in {0, 3}

\* i is the lowest index in 2..n-2 that breaks the mode
LowestBreak(i) ==
    /\ i \in 2..(NEntries - 2)
    /\ BreaksMode(i)
    /\ \A j \in 2..(i - 1) : ~BreaksMode(j)

(* ------------------------------------------------------------------ *)
(* Properties of the classification (SpecClassify)                     *)
(* ------------------------------------------------------------------ *)

\* C1: a sequence of exactly 3 entries that starts both-on and ends both-off
\* gives Locked exactly when the middle state is 0b10, Unlocked exactly when
\* it is 0b01 and InvalidState for 0b00 and 0b11; Locked and Unlocked are
\* returned for no other length.
C1_SteadyClassification ==
    pc = "done" =>
        /\ (NEntries = 3 /\ Structural) =>
              /\ (result = "Locked") <=> (StateAt(1) = 2)
              /\ (result = "Unlocked") <=> (StateAt(1) = 1)
              /\ (StateAt(1) \in {0, 3}) => (result = "InvalidState")
        /\ (result \in {"Locked", "Unlocked"}) => (NEntries = 3)

C1_Witness ==
    /\ pc = "done" /\ NEntries = 3 /\ Structural
    /\ StateAt(1) = 2 /\ result = "Locked"

\* C2: in a sequence of more than 3 entries that starts both-on and ends
\* both-off, entry 1 alone selects the mode: 0b00 gives Manual or
\* InvalidSubstate, 0b01 and 0b10 give OutOfRange or InvalidSubstate, 0b11
\* gives InvalidState whatever follows.
C2_ModeSelection ==
    (pc = "done" /\ NEntries > 3 /\ Structural) =>
        /\ (StateAt(1) = 0) => (result \in {"Manual"} \cup InvalidSubstate)
        /\ (StateAt(1) \in {1, 2}) => (result \in {"OutOfRange"} \cup InvalidSubstate)
        /\ (StateAt(1) = 3) => (result = "InvalidState")

C2_Witness ==
    /\ pc = "done" /\ NEntries = 5 /\ Structural
    /\ StateAt(1) = 3 /\ StateAt(2) = 1 /\ StateAt(3) = 2
    /\ result = "InvalidState"

\* C3: Manual is returned exactly for the sequences of more than 3 entries
\* that start both-on, end both-off, have 0b00 at index 1 and in which every
\* entry at 2..n-2 is the 2-bit complement of its predecessor; then the
\* entries 0..n-2 alternate 0b11, 0b00, 0b11, ...; and the lowest index in
\* 2..n-2 that breaks the alternation makes the call fail with
\* InvalidSubstate there.
C3_Manual ==
    pc = "done" =>
        /\ (result = "Manual") <=>
              /\ NEntries > 3 /\ Structural /\ StateAt(1) = 0
              /\ \A i \in 2..(NEntries - 2) : StateAt(i) = Complement(StateAt(i - 1))
        /\ (result = "Manual") =>
              \A i \in 0..(NEntries - 2) : StateAt(i) = IF i % 2 = 0 THEN 3 ELSE 0
        /\ (NEntries > 3 /\ Structural /\ StateAt(1) = 0) =>
              \A i \in 2..(NEntries - 2) :
                  LowestBreak(i) => (result = "InvalidSubstateManual" /\ walk_i = i)

C3_Witness ==
    /\ pc = "done" /\ NEntries = 6 /\ Structural /\ StateAt(1) = 0
    /\ StateAt(2) = 3 /\ StateAt(3) = 3
    /\ result = "InvalidSubstateManual" /\ walk_i = 3

\* C4 (as claimed): in OutOfRange mode a sequence whose entries 1..n-2 do not
\* strictly alternate between 0b01 and 0b10 fails with InvalidSubstate.
C4_AlternationEnforced ==
    (/\ pc = "done" /\ NEntries > 3 /\ Structural /\ StateAt(1) \in {1, 2}
     /\ \E i \in 2..(NEntries - 2) :
            StateAt(i) \notin {1, 2} \/ StateAt(i) = StateAt(i - 1))
        => result \in InvalidSubstate

\* C5: whenever OutOfRange is returned every entry at 1..n-2 has exactly one
\* LED lit; in OutOfRange mode an entry at 2..n-2 that is 0b00 or 0b11 makes
\* the call fail with InvalidSubstate, at the lowest such index.
C5_OneLedLit ==
    pc = "done" =>
        /\ (result = "OutOfRange") =>
              \A i \in 1..(NEntries - 2) : StateAt(i) \in {1, 2}
        /\ (NEntries > 3 /\ Structural /\ StateAt(1) \in {1, 2}) =>
              \A i \in 2..(NEntries - 2) :
                  LowestBreak(i) => (result = "InvalidSubstateOutOfRange" /\ walk_i = i)

C5_Witness ==
    /\ pc = "done" /\ NEntries = 6 /\ Structural /\ StateAt(1) = 1
    /\ StateAt(2) = 2 /\ StateAt(3) = 3
    /\ result = "InvalidSubstateOutOfRange" /\ walk_i = 3

\* C6: the checks are made in a fixed order: fewer than 3 entries fail with
\* InsufficientEvents whatever the states; else a first state other than
\* 0b11 fails with InvalidStart; else a last state other than 0b00 fails with
\* InvalidEnd; InvalidState is reported only for a sequence that passed the
\* three; InvalidSubstate only after entry 1 was accepted, at the lowest
\* index in 2..n-2 that breaks the mode.
C6_FailFastOrder ==
    pc = "done" =>
        /\ (NEntries < 3) => (result = "InsufficientEvents")
        /\ (NEntries >= 3 /\ StateAt(0) # 3) => (result = "InvalidStart")
        /\ (NEntries >= 3 /\ StateAt(0) = 3 /\ StateAt(NEntries - 1) # 0)
              => (result = "InvalidEnd")
        /\ (result = "InvalidState") =>
              (Structural /\ StateAt(1) \in (IF NEntries = 3 THEN {0, 3} ELSE {3}))
        /\ (result \in InvalidSubstate) =>
              (NEntries > 3 /\ Structural /\ StateAt(1) \in {0, 1, 2} /\ LowestBreak(walk_i))

C6_Witness ==
    /\ pc = "done" /\ NEntries = 4
    /\ StateAt(0) = 1 /\ StateAt(1) = 3 /\ StateAt(3) = 2
    /\ result = "InvalidStart"

\* C7: on every sequence of at least 3 entries that starts both-on and ends
\* both-off the classification returns, without reading outside the vector,
\* one of Locked, Unlocked, Manual, OutOfRange, InvalidState, InvalidSubstate.
C7_Total ==
    (pc = "done" /\ Structural) =>
        /\ result \notin Panics
        /\ result \in DeviceStates \cup {"InvalidState"} \cup InvalidSubstate

C7_Witness ==
    /\ pc = "done" /\ NEntries = 6 /\ Structural
    /\ result = "OutOfRange"

(* ------------------------------------------------------------------ *)
(* Properties of the coalescing (Spec)                                 *)
(* ------------------------------------------------------------------ *)

\* indices of the raw event log
RawIndices == 0..(Len(eventlog) - 1)

\* timestamp (ms) of the raw event i
RawTime(i) == At(eventlog, i).timestamp

\* distance of two timestamps
Distance(a, b) == IF a >= b THEN a - b ELSE b - a

\* the merge pass has run over the whole raw event log
MergeCompleted ==
    /\ pc = "done"
    /\ eventlog # <<>>
    /\ Len(origin) = Len(eventlog)

\* the carry-forward pass has run over every entry
FillCompleted == pc = "done" /\ result \notin Panics

\* C8 (as claimed): two raw events on different channels whose timestamps
\* differ by less than 50 ms, whatever the timestamps are, end up in one
\* coalesced entry whose mask covers both channels.
C8_MergedWithinWindow ==
    (pc = "done") =>
        \A i, j \in RawIndices :
            (/\ i < j
             /\ At(eventlog, i).mask # At(eventlog, j).mask
             /\ Distance(RawTime(i), RawTime(j)) < Window)
            => /\ j < Len(origin)
               /\ At(origin, i) = At(origin, j)
               /\ At(merged_eventlog, At(origin, i)).mask = 3

\* C9 (as claimed): two raw events of one capture, adjacent in the log or
\* not, whose timestamps differ by 50 ms or more never contribute to the same
\* coalesced entry.
C9_NeverMergedBeyondWindow ==
    MergeCompleted =>
        \A i, j \in RawIndices :
            (i < j /\ Distance(RawTime(i), RawTime(j)) >= Window)
            => At(origin, i) # At(origin, j)

\* C9 (amended): a raw event whose timestamp is at least 50 ms later than
\* that of the raw event logged immediately before it is not merged with it:
\* it starts the next coalesced entry.
C9_AdjacentLaterNotMerged ==
    MergeCompleted =>
        \A i \in RawIndices :
            (i >= 1 /\ RawTime(i) >= RawTime(i - 1) + Window)
            => At(origin, i) = At(origin, i - 1) + 1

C9_Witness ==
    /\ MergeCompleted
    /\ \E i \in RawIndices :
          /\ i >= 1
          /\ RawTime(i) = RawTime(i - 1) + Window
          /\ At(origin, i) = At(origin, i - 1) + 1

\* the last raw event of the merged run of entry k
RunEnd(k) ==
    CHOOSE i \in RawIndices :
        /\ At(origin, i) = k
        /\ \A j \in RawIndices : At(origin, j) = k => j <= i

\* the level of the most recent raw event on channel ch among the raw events
\* 0..upto, 0 when there is none
LastLevel(ch, upto) ==
    LET seen == { i \in 0..upto : At(eventlog, i).mask = ch }
    IN  IF seen = {} THEN 0
        ELSE LET last == CHOOSE i \in seen : \A j \in seen : j <= i
             IN  IF At(eventlog, last).state # 0 THEN 1 ELSE 0

\* C10: after coalescing every entry has mask 0b11 and a state in 0..3 in
\* which the bit of each channel is the level of the most recent raw event on
\* that channel up to the end of the entry's merged run, and 0 when no event
\* on that channel has been seen yet.
C10_ResolvedState ==
    FillCompleted =>
        \A k \in 0..(NEntries - 1) :
            LET e == At(simple_eventlog, k)
            IN  /\ e.mask = 3
                /\ e.state \in 0..3
                /\ e.state % 2 = LastLevel(RED, RunEnd(k))
                /\ e.state \div 2 = LastLevel(GREEN, RunEnd(k))

\* an entry whose run saw the red channel only shows the green LED on,
\* carried forward from an earlier entry
C10_Witness ==
    /\ FillCompleted
    /\ \E k \in 1..(NEntries - 1) :
          /\ \A i \in RawIndices : At(origin, i) = k => At(eventlog, i).mask = RED
          /\ At(simple_eventlog, k).state \div 2 = 1

(* ------------------------------------------------------------------ *)
(* Properties of the timestamps and of the capture (Spec)              *)
(* ------------------------------------------------------------------ *)

\* the first raw event of the merged run of entry k
RunStart(k) ==
    CHOOSE i \in RawIndices :
        /\ i < Len(origin) /\ At(origin, i) = k
        /\ \A j \in RawIndices : (j < Len(origin) /\ At(origin, j) = k) => i <= j

\* a <= b on u64, a negative number n standing for 2^64 + n
U64Leq(a, b) ==
    IF (a >= 0) = (b >= 0) THEN a <= b ELSE a >= 0

\* C11 (as claimed): after coalescing the first relative timestamp is 0, the
\* relative timestamps never decrease, and each is the timestamp of the first
\* raw event of the entry's run minus that of the first raw event of the
\* capture (a difference, so not a wrapped value).
C11_RelativeTimestamps ==
    FillCompleted =>
        /\ At(simple_eventlog, 0).timestamp = 0
        /\ \A k \in 1..(NEntries - 1) :
              U64Leq(At(simple_eventlog, k - 1).timestamp, At(simple_eventlog, k).timestamp)
        /\ \A k \in 0..(NEntries - 1) :
              /\ At(simple_eventlog, k).timestamp >= 0
              /\ At(simple_eventlog, k).timestamp = RawTime(RunStart(k)) - RawTime(0)

\* C12 (as claimed): the raw event log that the capture loop hands to the
\* merge pass is in non-decreasing timestamp order.
C12_LogOrdered ==
    (pc = "combine") =>
        \A i \in RawIndices : i >= 1 => RawTime(i - 1) <= RawTime(i)

\* C13: on a sequence whose entries all have mask 0b11, whose first
\* timestamp is 0 and whose gaps are all 50 ms or more, the merge pass, the
\* carry-forward pass and the normalisation together return the same
\* sequence: same length, timestamps, masks and states.
C13_Idempotent ==
    (pc = "done") =>
        /\ result \notin Panics
        /\ merged_eventlog = eventlog
        /\ simple_eventlog = eventlog

C13_Witness ==
    /\ pc = "done"
    /\ Len(eventlog) = 4
    /\ RawTime(1) = Window /\ RawTime(2) = 2 * Window
    /\ At(eventlog, 1).state = 1 /\ At(eventlog, 2).state = 1
    /\ simple_eventlog = eventlog

\* the level of the last raw event on channel ch within the run of entry k,
\* -1 when the run has none
RunLevel(ch, k) ==
    LET seen == { i \in RawIndices :
                    i < Len(origin) /\ At(origin, i) = k /\ At(eventlog, i).mask = ch }
    IN  IF seen = {} THEN -1
        ELSE LET last == CHOOSE i \in seen : \A j \in seen : j <= i
             IN  IF At(eventlog, last).state # 0 THEN 1 ELSE 0

\* bit of channel ch in a 2-bit state
BitOf(ch, st) == IF ch = RED THEN st % 2 ELSE st \div 2

\* C14 (as claimed): every raw event after the first is merged into the
\* current entry exactly when its gap to the raw event before it is below
\* 50 ms, and starts a new entry otherwise; an entry keeps the timestamp of
\* the first event of its run, and on each channel the level of the run's
\* last event on that channel.
C14_MergeDecision ==
    (pc = "done" /\ eventlog # <<>>) =>
        /\ \A i \in RawIndices : i >= 1 =>
              /\ i < Len(origin)
              /\ (At(origin, i) = At(origin, i - 1)) <=> (RawTime(i) - RawTime(i - 1) < Window)
              /\ At(origin, i) \in {At(origin, i - 1), At(origin, i - 1) + 1}
        /\ \A k \in 0..(Len(merged_eventlog) - 1) :
              /\ At(merged_eventlog, k).timestamp = RawTime(RunStart(k))
              /\ \A ch \in {RED, GREEN} :
                    RunLevel(ch, k) # -1 =>
                        BitOf(ch, At(merged_eventlog, k).state) = RunLevel(ch, k)

\* C15 (as claimed): the raw event log is non-empty whenever state() reaches
\* the merge pass, so eventlog[0] is in bounds, and a capture without any LED
\* edge ends in InsufficientEvents.
C15_LogNonEmpty ==
    /\ (pc = "combine") => (eventlog # <<>>)
    /\ (pc = "done") => (result # "PanicIndexOutOfBounds")
    /\ (pc = "done" /\ eventlog = <<>>) => (result = "InsufficientEvents")

\* C16 (as claimed): no u64 subtraction of state() underflows: neither
\* eventlog[i].timestamp - 50 for an event after the first nor
\* e.timestamp - offset for an entry.
C16_NoUnderflow ==
    (pc = "done") =>
        /\ result # "PanicSubtractOverflow"
        /\ \A i \in RawIndices : i >= 1 => ~SubOverflows(RawTime(i), Window)
        /\ MergeCompleted =>
              \A k \in 0..(Len(merged_eventlog) - 1) :
                  ~SubOverflows(At(merged_eventlog, k).timestamp,
                                At(merged_eventlog, 0).timestamp)

\* the first run is complete (a second entry was started or the log ended)
\* and holds events of one channel only
FirstRunSingleChannel ==
    /\ pc = "done" /\ eventlog # <<>>
    /\ Len(merged_eventlog) >= 2 \/ Len(origin) = Len(eventlog)
    /\ RunLevel(RED, 0) = -1 \/ RunLevel(GREEN, 0) = -1

\* C19 (as claimed): a device state is returned only if the first merged run
\* holds an edge on both channels and the last edge of each channel in it is
\* rising; when the first run holds one channel only, the first coalesced
\* state is not 0b11 and the call fails with InvalidStart, or with
\* InsufficientEvents.
C19_FirstRunBothOn ==
    /\ (pc = "done" /\ result \in DeviceStates) =>
          (RunLevel(RED, 0) = 1 /\ RunLevel(GREEN, 0) = 1)
    /\ FirstRunSingleChannel =>
          /\ StateAt(0) # 3
          /\ result \in {"InvalidStart", "InsufficientEvents"}

\* the lines that the call drove high
DrivenHigh == { w[1] : w \in { writes[k] : k \in 1..Len(writes) } \cap ({"lock", "unlock"} \X {1}) }

\* the level of a line
Level(line) == IF line = "lock" THEN lock ELSE unlock

\* C17 (as claimed): whenever lock(), unlock() or check() has returned, with
\* Ok or with the error of one of its line writes, every line the call drove
\* high is low again; a check() that returned Ok pressed lock then unlock and
\* released unlock then lock.
C17_PressedAndReleased ==
    (pc = "idle" /\ op \in Methods /\ ret \in {"Ok", "Err"}) =>
        /\ \A line \in DrivenHigh : Level(line) = 0
        /\ (op = "check" /\ ret = "Ok") =>
              writes = << <<"lock", 1>>, <<"unlock", 1>>, <<"unlock", 0>>, <<"lock", 0>> >>

\* C18 (as claimed): the raw events a state() call logs are edges that
\* occurred after the call was made: none of them was already pending on
\* self.red or self.green when the call started.  The handles are FIFO, so a
\* channel with events pending at the call logs a stale one first.
C18_OwnSession ==
    (op = "state" /\ pc \in {"capture", "combine", "done"}) =>
        /\ (\E i \in RawIndices : At(eventlog, i).mask = RED) => queued_before[1] = 0
        /\ (\E i \in RawIndices : At(eventlog, i).mask = GREEN) => queued_before[2] = 0

====
